---- MODULE Spec2Model ----
(***************************************************************************)
(* Model of the tschawytscha-ai backend: the Token Gate (auth.go:          *)
(* initHandler, authMiddleware), the Chat Relay (main.go: chatHandler,     *)
(* writeJSON, errorResponse) and the start-up and routing done by main().  *)
(*                                                                         *)
(* Three specifications share the variables:                               *)
(*   Spec      the process as main() builds it (environment, fatal exit,   *)
(*             the default ServeMux with its one registered route);        *)
(*   SpecGate  initHandler and authMiddleware(next) driven directly;       *)
(*   SpecChat  chatHandler driven directly.                                *)
(*                                                                         *)
(* Texts on the wire (request bodies, response bodies) are sequences of    *)
(* lexical tokens [t, v]; encoding/json is modelled on those tokens.       *)
(* Time is counted in days.                                                *)
(***************************************************************************)
EXTENDS Integers, Sequences, FiniteSets, TLC

VARIABLES env, proc, now, req, pc, resp, sent, out, nextCalled, jar

vars == <<env, proc, now, req, pc, resp, sent, out, nextCalled, jar>>

(***************************************************************************)
(* Bounds and program constants                                            *)
(***************************************************************************)
\* the clock runs from day 0 to day MaxTime
MaxTime == 32

\* auth.go:16  time.Hour * 24 * 30, in days
TokenLifetime == 30

\* main.go:144
DefaultPort == "8080"

\* main.go:91
Model == "gpt-4o"

\* main.go:24-34 (abbreviated)
systemPrompt == "You are TshaBot"

\* auth.go:27
CookieName == "auth_token"

\* auth.go:15
AppClaim == "tshawytscha-ai"

\* main.go:139
ChatPath == "/api/chat"

(***************************************************************************)
(* Lexical tokens of a JSON text                                           *)
(***************************************************************************)
Tok(t, v) == [t |-> t, v |-> v]
LB    == Tok("{", "")
RB    == Tok("}", "")
COLON == Tok(":", "")
COMMA == Tok(",", "")
NULL  == Tok("null", "")
NUM   == Tok("num", "5")
WS    == Tok("ws", "\n")
Str(s) == Tok("str", s)
\* bytes that are no JSON token (plain text)
Raw(s) == Tok("raw", s)

ScalarKinds == {"str", "num", "null"}

\* JSON ignores white space between tokens
Strip(s) == SelectSeq(s, LAMBDA k : k.t # "ws")

(***************************************************************************)
(* encoding/json scanner: the extent of the first JSON value of a token    *)
(* sequence.  0 = syntax error or unexpected end of input.  Objects are    *)
(* flat: a member's value is a scalar.                                     *)
(***************************************************************************)
RECURSIVE ScanMembers(_, _, _)
ScanMembers(s, i, st) ==
  IF i > Len(s) THEN 0
  ELSE CASE st = "first" ->
              IF s[i].t = "}" THEN i
              ELSE IF s[i].t = "str" THEN ScanMembers(s, i + 1, "colon")
              ELSE 0
         [] st = "key" ->
              IF s[i].t = "str" THEN ScanMembers(s, i + 1, "colon") ELSE 0
         [] st = "colon" ->
              IF s[i].t = ":" THEN ScanMembers(s, i + 1, "value") ELSE 0
         [] st = "value" ->
              IF s[i].t \in ScalarKinds THEN ScanMembers(s, i + 1, "sep") ELSE 0
         [] st = "sep" ->
              IF s[i].t = "}" THEN i
              ELSE IF s[i].t = "," THEN ScanMembers(s, i + 1, "key")
              ELSE 0

ScanValue(s) ==
  IF Len(s) = 0 THEN 0
  ELSE IF s[1].t \in ScalarKinds THEN 1
  ELSE IF s[1].t = "{" THEN ScanMembers(s, 2, "first")
  ELSE 0

\* a whole text is a JSON document iff it is one value and nothing else
IsValidJSON(body) ==
  LET s == Strip(body) IN Len(s) > 0 /\ ScanValue(s) = Len(s)

\* the values of the members named exactly key in a JSON object text
RECURSIVE MemberValues(_, _, _)
MemberValues(s, i, key) ==
  IF s[i].t = "}" THEN {}
  ELSE LET here == IF s[i].v = key THEN {s[i + 2]} ELSE {}
       IN  IF s[i + 3].t = "}" THEN here
           ELSE here \cup MemberValues(s, i + 4, key)

IsObject(body) == IsValidJSON(body) /\ Strip(body)[1].t = "{"

Field(body, key) ==
  IF IsObject(body) THEN MemberValues(Strip(body), 2, key) ELSE {}

(***************************************************************************)
(* json.NewDecoder(r.Body).Decode(&reqPayload), reqPayload a ChatRequest   *)
(* (main.go:14-16, 77-78).  Decode reads the first JSON value of the       *)
(* stream and leaves what follows unread; a field name matches its key     *)
(* case-insensitively; null leaves the field alone; a value of another     *)
(* type is an UnmarshalTypeError, returned after the object is read.       *)
(***************************************************************************)
FoldEq(k, name) ==
  \/ k = name
  \/ name = "question" /\ k \in {"Question", "QUESTION"}

RECURSIVE UnmarshalMembers(_, _, _)
UnmarshalMembers(s, i, acc) ==
  IF s[i].t = "}" THEN acc
  ELSE LET val  == s[i + 2]
           acc2 == IF ~FoldEq(s[i].v, "question") THEN acc
                   ELSE IF val.t = "str" THEN [acc EXCEPT !.Question = val.v]
                   ELSE IF val.t = "null" THEN acc
                   ELSE [acc EXCEPT !.err = TRUE]
       IN  IF s[i + 3].t = "}" THEN acc2
           ELSE UnmarshalMembers(s, i + 4, acc2)

Decode(body) ==
  LET s    == Strip(body)
      zero == [err |-> FALSE, Question |-> ""]
  IN  IF ScanValue(s) = 0 THEN [zero EXCEPT !.err = TRUE]
      ELSE IF s[1].t = "null" THEN zero
      ELSE IF s[1].t = "{" THEN UnmarshalMembers(s, 2, zero)
      ELSE [zero EXCEPT !.err = TRUE]

(***************************************************************************)
(* json.NewEncoder(w).Encode(payload): the object text of a payload given  *)
(* as a sequence of [k, v] string pairs, followed by a newline.            *)
(***************************************************************************)
RECURSIVE EncodeMembers(_, _)
EncodeMembers(p, i) ==
  IF i > Len(p) THEN <<>>
  ELSE (IF i > 1 THEN <<COMMA>> ELSE <<>>)
       \o <<Str(p[i].k), COLON, Str(p[i].v)>>
       \o EncodeMembers(p, i + 1)

Encode(p) == <<LB>> \o EncodeMembers(p, 1) \o <<RB, WS>>

\* main.go:61  map[string]string{"error": msg}
ErrorPayload(msg) == <<[k |-> "error", v |-> msg]>>

\* main.go:19-21, 114-116  ChatResponse{Answer: a}
ChatResponse(a) == <<[k |-> "answer", v |-> a]>>

(***************************************************************************)
(* Credentials (golang-jwt/jwt v5.2.1, go.mod).  A signed token is         *)
(* abstracted to its header algorithm, the key its signature was made      *)
(* with, and its registered claims; a claim that is absent is the empty    *)
(* set.  HMAC signatures are taken to be collision free: a signature       *)
(* verifies under a key iff it was made with that key.                     *)
(***************************************************************************)
NoCookie == [kind |-> "none", alg |-> "", key |-> "", exp |-> {}, nbf |-> {}, app |-> ""]

Garbage == [kind |-> "garbage", alg |-> "", key |-> "", exp |-> {}, nbf |-> {}, app |-> ""]

Jwt(alg, key, exp, nbf, app) ==
  [kind |-> "jwt", alg |-> alg, key |-> key, exp |-> exp, nbf |-> nbf, app |-> app]

HMACAlgs == {"HS256", "HS384", "HS512"}

\* variant: the expiration is the time of issue
SignedStringNoLifetime(secret, t) ==
  [err |-> FALSE,
   token |-> [kind |-> "jwt", alg |-> "HS256", key |-> secret, exp |-> {t},
              nbf |-> {}, app |-> AppClaim]]

\* auth.go:14-19  jwt.NewWithClaims(HS256, {app, exp}) . SignedString(secret)
\* SigningMethodHMAC.Sign fails only for a key that is not a []byte.
SignedString(secret, t) ==
  [err |-> FALSE,
   token |-> Jwt("HS256", secret, {t + TokenLifetime}, {}, AppClaim)]

\* auth.go:46-50  jwt.Parse(cookie.Value, keyfunc) with the default parser:
\* the token must have three decodable segments, its signature must verify
\* with the method its header names (none is refused for a []byte key),
\* then the default validator checks exp if present (now before exp) and
\* nbf if present (now not before nbf); exp is not required.
JwtParse(c, secret, t) ==
  /\ c.kind = "jwt"
  /\ c.alg \in HMACAlgs
  /\ c.key = secret
  /\ \A e \in c.exp : t < e
  /\ \A n \in c.nbf : t >= n

(***************************************************************************)
(* http.ResponseWriter: the status codes written, the Content-Type         *)
(* header, the body, the Set-Cookie header and the CORS headers.           *)
(***************************************************************************)
NoResp == [codes |-> <<>>, ctype |-> "", body |-> <<>>, cookie |-> NoCookie, cors |-> FALSE]

\* net/http: http.Error
HttpError(w, msg, code) ==
  [w EXCEPT !.ctype = "text/plain; charset=utf-8",
            !.codes = Append(@, code),
            !.body  = @ \o <<Raw(msg), WS>>]

\* main.go:51-57
writeJSON(w, status, payload) ==
  [w EXCEPT !.ctype = "application/json",
            !.codes = Append(@, status),
            !.body  = @ \o Encode(payload)]

\* main.go:60-62
errorResponse(w, status, msg) == writeJSON(w, status, ErrorPayload(msg))

(***************************************************************************)
(* chatHandler, main.go:65-118, in its two halves: up to the provider      *)
(* call, and from the provider's return.                                   *)
(***************************************************************************)
ChatMessages(q) ==
  <<[role |-> "system", content |-> systemPrompt],
    [role |-> "user",   content |-> q]>>

ChatCompletionRequest(q) == [model |-> Model, messages |-> ChatMessages(q)]

\* variant: the body is decoded before the method is looked at
ChatBeginDecodeFirst(r, w0) ==
  LET w == [w0 EXCEPT !.cors = TRUE]
      d == Decode(r.body)
  IN  IF d.err
      THEN [pc |-> "failed", w |-> errorResponse(w, 400, "Invalid request payload"), sent |-> <<>>]
      ELSE IF r.method # "POST"
      THEN [pc |-> "failed", w |-> errorResponse(w, 405, "Method not allowed"), sent |-> <<>>]
      ELSE IF d.Question = ""
      THEN [pc |-> "failed", w |-> errorResponse(w, 400, "The question field is required"), sent |-> <<>>]
      ELSE [pc |-> "validated", w |-> w, sent |-> <<ChatCompletionRequest(d.Question)>>]

\* variant: no return after the 405, the handler goes on with the response
\* it has written to
ChatBeginNoReturn(r, w0) ==
  LET w  == [w0 EXCEPT !.cors = TRUE]
      w1 == IF r.method # "POST" THEN errorResponse(w, 405, "Method not allowed") ELSE w
      d  == Decode(r.body)
  IN  IF d.err
      THEN [pc |-> "failed", w |-> errorResponse(w1, 400, "Invalid request payload"), sent |-> <<>>]
      ELSE IF d.Question = ""
      THEN [pc |-> "failed", w |-> errorResponse(w1, 400, "The question field is required"), sent |-> <<>>]
      ELSE [pc |-> "validated", w |-> w1, sent |-> <<ChatCompletionRequest(d.Question)>>]

\* main.go:65-96: result is the handler's position, the response so far and
\* the requests handed to the provider client
ChatBegin(r, w0) ==
  LET w == [w0 EXCEPT !.cors = TRUE]
      d == Decode(r.body)
  IN  IF r.method # "POST"
      THEN [pc |-> "failed", w |-> errorResponse(w, 405, "Method not allowed"), sent |-> <<>>]
      ELSE IF d.err
      THEN [pc |-> "failed", w |-> errorResponse(w, 400, "Invalid request payload"), sent |-> <<>>]
      ELSE IF d.Question = ""
      THEN [pc |-> "failed", w |-> errorResponse(w, 400, "The question field is required"), sent |-> <<>>]
      ELSE [pc |-> "validated", w |-> w, sent |-> <<ChatCompletionRequest(d.Question)>>]

\* variant: the last choice is taken
LastChoice(choices) == choices[Len(choices)]

\* main.go:111
FirstChoice(choices) == choices[1]

\* variant: an answer without choices is relayed as an empty answer
ChatEndNoLenCheck(w, o) ==
  IF o.err
  THEN [pc |-> "failed", w |-> errorResponse(w, 500, "Failed to fetch response from OpenAI")]
  ELSE IF Len(o.choices) = 0
  THEN [pc |-> "completed", w |-> writeJSON(w, 200, ChatResponse(""))]
  ELSE [pc |-> "completed", w |-> writeJSON(w, 200, ChatResponse(FirstChoice(o.choices)))]

\* main.go:99-117: o is what CreateChatCompletion returned
ChatEnd(w, o) ==
  IF o.err
  THEN [pc |-> "failed", w |-> errorResponse(w, 500, "Failed to fetch response from OpenAI")]
  ELSE IF Len(o.choices) = 0
  THEN [pc |-> "failed", w |-> errorResponse(w, 500, "No response from OpenAI")]
  ELSE [pc |-> "completed", w |-> writeJSON(w, 200, ChatResponse(FirstChoice(o.choices)))]

(***************************************************************************)
(* initHandler, auth.go:12-36                                              *)
(***************************************************************************)
InitResult(w, secret, t) ==
  LET s == SignedString(secret, t)
  IN  IF s.err
      THEN [pc |-> "failed", w |-> HttpError(w, "Failed to create token", 500)]
      ELSE [pc |-> "completed",
            w  |-> [w EXCEPT !.cookie = s.token, !.codes = Append(@, 200)]]

(***************************************************************************)
(* authMiddleware, auth.go:38-57: pass = next.ServeHTTP is called          *)
(***************************************************************************)
AuthResult(r, w, secret, t) ==
  IF r.cookie.kind = "none"
  THEN [pass |-> FALSE, w |-> HttpError(w, "Unauthorized", 401)]
  ELSE IF ~JwtParse(r.cookie, secret, t)
  THEN [pass |-> FALSE, w |-> HttpError(w, "Invalid token", 401)]
  ELSE [pass |-> TRUE, w |-> w]

(***************************************************************************)
(* main, main.go:120-148                                                   *)
(***************************************************************************)
\* main.go:129-132: logger.Fatal exits the process
MainResult(e) == IF e.OPENAI_API_KEY = "" THEN "fatal" ELSE "listening"

\* main.go:142-145
ListenPort(e) == IF e.PORT = "" THEN DefaultPort ELSE e.PORT

\* main.go:139, 147: the default ServeMux with its registered patterns
Routes == {ChatPath}

MuxHandler(path) == IF path \in Routes THEN "chatHandler" ELSE "NotFound"

(***************************************************************************)
(* Inputs                                                                  *)
(***************************************************************************)
\* the provider returns at most MaxChoices choices
MaxChoices == 2

Methods == {"POST", "GET", "OPTIONS"}

Paths == {ChatPath, "/api/init", "/"}

Obj1(k, v) == <<LB, Str(k), COLON, v, RB>>

Obj2(k1, v1, k2, v2) == <<LB, Str(k1), COLON, v1, COMMA, Str(k2), COLON, v2, RB>>

\* request bodies: documents, broken texts, and texts that start with a document
Bodies ==
  { <<>>,
    <<LB, RB>>,
    Obj1("question", Str("hello")),
    Obj1("question", Str("")),
    Obj1("question", NUM),
    Obj1("question", NULL),
    Obj1("other", Str("hello")),
    Obj1("QUESTION", Str("hello")),
    Obj2("question", Str(""), "question", Str("bye")),
    Obj2("question", Str("bye"), "question", Str("")),
    Obj2("question", NUM, "question", Str("hello")),
    Obj2("other", NUM, "question", Str("bye")),
    <<WS, LB, Str("question"), WS, COLON, Str("bye"), RB, WS>>,
    <<NUM>>,
    <<NULL>>,
    <<Str("hello")>>,
    <<Raw("hello")>>,
    <<LB, Str("question"), COLON, Str("hello")>>,
    <<LB, Str("question"), Str("hello"), RB>>,
    <<LB, Str("question"), COLON, Raw("hello"), RB>>,
    Obj1("question", Str("hello")) \o <<Raw("trailing")>>,
    Obj1("question", Str("hello")) \o <<RB>>,
    Obj1("question", Str("hello")) \o Obj1("question", Str("bye")),
    Obj1("question", Str("")) \o <<Raw("trailing")>> }

Contents == {"hi there", "other", ""}

SeqsUpTo(S, n) == UNION {[1..k -> S] : k \in 0..n}

\* what CreateChatCompletion returns: an error, or a response with choices
Outcomes ==
  {[err |-> TRUE, choices |-> <<>>]}
    \cup {[err |-> FALSE, choices |-> c] : c \in SeqsUpTo(Contents, MaxChoices)}

NoOut == [err |-> FALSE, choices |-> <<>>]

Secrets == {"", "k1"}

Keys == {"", "k1", "k2"}

\* cookies a client can make up without asking the server
CraftedCookies ==
  {NoCookie, Garbage}
    \cup {Jwt(a, k, e, n, AppClaim) :
            a \in {"HS256", "none"}, k \in Keys,
            e \in {{}, {1}, {MaxTime + 1}}, n \in {{}, {2}}}
    \cup {Jwt("HS512", "k1", {MaxTime + 1}, {}, "other")}

NoReq == [handler |-> "none", path |-> "", method |-> "", cookie |-> NoCookie, body |-> <<>>]

NoJar == [cookie |-> NoCookie, at |-> 0]

Terminal == {"completed", "failed"}

Fresh ==
  /\ resp' = NoResp
  /\ sent' = <<>>
  /\ out' = NoOut
  /\ nextCalled' = FALSE

(***************************************************************************)
(* The process built by main()                                             *)
(***************************************************************************)
Init ==
  /\ env \in [OPENAI_API_KEY : {"", "sk-test"}, JWT_SECRET : Secrets, PORT : {"", "9090"}]
  /\ proc = [state |-> "starting", port |-> ""]
  /\ now = 0
  /\ req = NoReq
  /\ pc = "idle"
  /\ resp = NoResp
  /\ sent = <<>>
  /\ out = NoOut
  /\ nextCalled = FALSE
  /\ jar = NoJar

\* main.go:120-147
Main ==
  /\ proc.state = "starting"
  /\ proc' = [state |-> MainResult(env),
              port  |-> IF MainResult(env) = "listening" THEN ListenPort(env) ELSE ""]
  /\ UNCHANGED <<env, now, req, pc, resp, sent, out, nextCalled, jar>>

\* a client sends a request to the listening port
Arrive ==
  /\ proc.state = "listening"
  /\ pc \in {"idle"} \cup Terminal
  /\ \E p \in Paths, m \in Methods, b \in Bodies,
        c \in {NoCookie, Garbage, SignedString(env.JWT_SECRET, now).token} :
       req' = [handler |-> "mux", path |-> p, method |-> m, cookie |-> c, body |-> b]
  /\ pc' = "received"
  /\ Fresh
  /\ UNCHANGED <<env, proc, now, jar>>

\* main.go:139: the mux hands the request to chatHandler (main.go:65-96)
ServeChat ==
  /\ pc = "received"
  /\ req.handler = "mux"
  /\ MuxHandler(req.path) = "chatHandler"
  /\ LET b == ChatBegin(req, resp)
     IN  /\ pc' = b.pc
         /\ resp' = b.w
         /\ sent' = sent \o b.sent
  /\ UNCHANGED <<env, proc, now, req, out, nextCalled, jar>>

\* net/http: no pattern matches, the mux answers 404
ServeNotFound ==
  /\ pc = "received"
  /\ req.handler = "mux"
  /\ MuxHandler(req.path) = "NotFound"
  /\ pc' = "failed"
  /\ resp' = HttpError(resp, "404 page not found", 404)
  /\ UNCHANGED <<env, proc, now, req, sent, out, nextCalled, jar>>

\* main.go:99-117: CreateChatCompletion returns and chatHandler finishes
ProviderReturn ==
  /\ pc = "validated"
  /\ \E o \in Outcomes :
       LET e == ChatEnd(resp, o)
       IN  /\ out' = o
           /\ pc' = e.pc
           /\ resp' = e.w
  /\ UNCHANGED <<env, proc, now, req, sent, nextCalled, jar>>

Next == Main \/ Arrive \/ ServeChat \/ ServeNotFound \/ ProviderReturn

Spec == Init /\ [][Next]_vars

(***************************************************************************)
(* The Token Gate's handlers, called directly                              *)
(***************************************************************************)
InitGate ==
  /\ env \in [OPENAI_API_KEY : {"sk-test"}, JWT_SECRET : Secrets, PORT : {""}]
  /\ proc = [state |-> "handlers", port |-> ""]
  /\ now = 0
  /\ req = NoReq
  /\ pc = "idle"
  /\ resp = NoResp
  /\ sent = <<>>
  /\ out = NoOut
  /\ nextCalled = FALSE
  /\ jar = NoJar

\* a client calls init, or calls a protected handler with a cookie it made
\* up or with the cookie it stored
GateArrive ==
  /\ pc \in {"idle"} \cup Terminal
  /\ \E h \in {"initHandler", "authMiddleware"}, c \in CraftedCookies \cup {jar.cookie} :
       req' = [handler |-> h, path |-> "", method |-> "GET", cookie |-> c, body |-> <<>>]
  /\ pc' = "received"
  /\ Fresh
  /\ UNCHANGED <<env, proc, now, jar>>

\* auth.go:12-36
InitHandler ==
  /\ pc = "received"
  /\ req.handler = "initHandler"
  /\ LET r == InitResult(resp, env.JWT_SECRET, now)
     IN  /\ pc' = r.pc
         /\ resp' = r.w
  /\ UNCHANGED <<env, proc, now, req, sent, out, nextCalled, jar>>

\* auth.go:38-57, next being a handler that records its invocation
AuthMiddleware ==
  /\ pc = "received"
  /\ req.handler = "authMiddleware"
  /\ LET r == AuthResult(req, resp, env.JWT_SECRET, now)
     IN  /\ pc' = IF r.pass THEN "completed" ELSE "failed"
         /\ resp' = r.w
         /\ nextCalled' = r.pass
  /\ UNCHANGED <<env, proc, now, req, sent, out, jar>>

\* the client stores the cookie of a Set-Cookie header
ClientStore ==
  /\ pc \in Terminal
  /\ resp.cookie.kind # "none"
  /\ jar.cookie # resp.cookie
  /\ jar' = [cookie |-> resp.cookie, at |-> now]
  /\ UNCHANGED <<env, proc, now, req, pc, resp, sent, out, nextCalled>>

\* a day passes while no response is being looked at
Tick ==
  /\ pc \notin Terminal
  /\ now < MaxTime
  /\ now' = now + 1
  /\ UNCHANGED <<env, proc, req, pc, resp, sent, out, nextCalled, jar>>

NextGate == GateArrive \/ InitHandler \/ AuthMiddleware \/ ClientStore \/ Tick

SpecGate == InitGate /\ [][NextGate]_vars

(***************************************************************************)
(* The Chat Relay's handler, called directly                               *)
(***************************************************************************)
InitChat ==
  /\ env \in [OPENAI_API_KEY : {"sk-test"}, JWT_SECRET : {"k1"}, PORT : {""}]
  /\ proc = [state |-> "handlers", port |-> ""]
  /\ now = 0
  /\ req = NoReq
  /\ pc = "idle"
  /\ resp = NoResp
  /\ sent = <<>>
  /\ out = NoOut
  /\ nextCalled = FALSE
  /\ jar = NoJar

ChatArrive ==
  /\ pc \in {"idle"} \cup Terminal
  /\ \E m \in Methods, b \in Bodies :
       req' = [handler |-> "chatHandler", path |-> ChatPath, method |-> m,
               cookie |-> NoCookie, body |-> b]
  /\ pc' = "received"
  /\ Fresh
  /\ UNCHANGED <<env, proc, now, jar>>

\* main.go:65-96
ChatHandler ==
  /\ pc = "received"
  /\ req.handler = "chatHandler"
  /\ LET b == ChatBegin(req, resp)
     IN  /\ pc' = b.pc
         /\ resp' = b.w
         /\ sent' = sent \o b.sent
  /\ UNCHANGED <<env, proc, now, req, out, nextCalled, jar>>

NextChat == ChatArrive \/ ChatHandler \/ ProviderReturn

SpecChat == InitChat /\ [][NextChat]_vars

(***************************************************************************)
(* Properties                                                              *)
(***************************************************************************)
\* the validity the specification gives a credential: signed with the
\* process secret and carrying an expiration that lies in the future
ValidCredential(c, secret, t) ==
  /\ c.kind = "jwt"
  /\ c.alg \in HMACAlgs
  /\ c.key = secret
  /\ c.exp # {}
  /\ \A e \in c.exp : t < e

\* the request on hand has been through chatHandler's first half
ChatHandled == req.handler \in {"chatHandler", "mux"} /\ pc \in {"validated"} \cup Terminal

\* the values a JSON text gives the question field, the name taken as the
\* decoder takes it
QuestionField(body) ==
  UNION {Field(body, k) : k \in {"question", "Question", "QUESTION"}}

\* the one-line error message of a JSON error response
ErrorMessages(w) == {v.v : v \in {x \in Field(w.body, "error") : x.t = "str"}}

\* C1: in the running server the provider is called only for a chat request
\* that carries a valid auth_token cookie.
C1_ProviderBehindGate ==
  (proc.state = "listening" /\ sent # <<>>)
    => ValidCredential(req.cookie, env.JWT_SECRET, now)

\* C2: authMiddleware invokes the wrapped handler iff the cookie holds a
\* credential signed with the process secret whose expiration is in the
\* future; otherwise it answers 401 and does not invoke it.
C2_PassIffValid ==
  (req.handler = "authMiddleware" /\ pc \in Terminal)
    => /\ nextCalled <=> ValidCredential(req.cookie, env.JWT_SECRET, now)
       /\ ~nextCalled => resp.codes = <<401>>

\* C3: a cookie set by initHandler and presented to authMiddleware before
\* its 30 days are over passes and the wrapped handler is invoked; a request
\* without the cookie is answered 401.
C3_IssueThenVerify ==
  (req.handler = "authMiddleware" /\ pc \in Terminal)
    => /\ (/\ jar.cookie.kind # "none"
           /\ req.cookie = jar.cookie
           /\ now < jar.at + TokenLifetime)
            => (nextCalled /\ pc = "completed" /\ resp.codes = <<>>)
       /\ req.cookie.kind = "none"
            => (~nextCalled /\ pc = "failed" /\ resp.codes = <<401>>)

C3_Witness ==
  /\ req.handler = "authMiddleware"
  /\ pc = "completed"
  /\ jar.cookie.kind = "jwt"
  /\ req.cookie = jar.cookie
  /\ now > jar.at
  /\ nextCalled

\* C4: every response written carries Content-Type application/json and a
\* body that is a JSON document: an answer on success, an error message on
\* failure.
C4_AllResponsesJSON ==
  (pc \in Terminal /\ resp.codes # <<>>)
    => /\ resp.ctype = "application/json"
       /\ IsValidJSON(resp.body)
       /\ IF pc = "completed"
          THEN \E v \in Field(resp.body, "answer") : v.t = "str"
          ELSE ErrorMessages(resp) # {}

\* C5: a POST whose body decodes to a non-empty question q, answered by the
\* provider with at least one choice, yields 200 {"answer": a} with a the
\* content of the first choice, and the provider was sent the system prompt
\* followed by the user message q.
C5_AnswerIsFirstChoice ==
  LET d == Decode(req.body)
  IN  (/\ req.handler = "chatHandler"
       /\ pc \in Terminal
       /\ req.method = "POST"
       /\ ~d.err
       /\ d.Question # ""
       /\ ~out.err
       /\ Len(out.choices) >= 1)
        => /\ pc = "completed"
           /\ resp.codes = <<200>>
           /\ IsValidJSON(resp.body)
           /\ Field(resp.body, "answer") = {Str(out.choices[1])}
           /\ Len(sent) = 1
           /\ Len(sent[1].messages) = 2
           /\ sent[1].messages[1] = [role |-> "system", content |-> systemPrompt]
           /\ sent[1].messages[2] = [role |-> "user", content |-> d.Question]

C5_Witness ==
  /\ req.handler = "chatHandler"
  /\ pc = "completed"
  /\ resp.codes = <<200>>
  /\ Len(out.choices) = 2
  /\ out.choices[1] # out.choices[2]
  /\ Field(resp.body, "answer") = {Str("hi there")}

\* C6: a POST whose body is not valid JSON, or is valid JSON in which the
\* question field is empty or missing, is answered 400 with a non-empty
\* error message.
C6_BadBodyIs400 ==
  (/\ req.handler = "chatHandler"
   /\ ChatHandled
   /\ req.method = "POST"
   /\ \/ ~IsValidJSON(req.body)
      \/ QuestionField(req.body) \subseteq {Str("")})
    => /\ pc = "failed"
       /\ resp.codes = <<400>>
       /\ \E m \in ErrorMessages(resp) : m # ""

\* C7: a request whose method is not POST is answered 405 whatever its body
\* is; the body does not turn the answer into 400.
C7_NotPostIs405 ==
  (req.handler = "chatHandler" /\ ChatHandled /\ req.method # "POST")
    => /\ pc = "failed"
       /\ resp.codes = <<405>>
       /\ sent = <<>>

C7_Witness ==
  /\ req.handler = "chatHandler"
  /\ req.method = "GET"
  /\ ~IsValidJSON(req.body)
  /\ pc = "failed"
  /\ resp.codes = <<405>>

\* C8: for a validated chat request, a provider error or a provider answer
\* with zero choices is answered 500, the provider having been called once.
C8_ProviderFailureIs500 ==
  LET d == Decode(req.body)
  IN  (/\ req.handler = "chatHandler"
       /\ pc \in Terminal
       /\ req.method = "POST"
       /\ ~d.err
       /\ d.Question # ""
       /\ (out.err \/ Len(out.choices) = 0))
        => /\ pc = "failed"
           /\ resp.codes = <<500>>
           /\ Len(sent) = 1

C8_Witness ==
  /\ req.handler = "chatHandler"
  /\ pc = "failed"
  /\ Len(sent) = 1
  /\ ~out.err
  /\ out.choices = <<>>
  /\ resp.codes = <<500>>

\* C9: the process listens only if OPENAI_API_KEY and JWT_SECRET are both
\* set; without OPENAI_API_KEY it never listens; the port alone defaults,
\* to 8080.
C9_StartupConfig ==
  /\ proc.state = "listening"
       => (env.OPENAI_API_KEY # "" /\ env.JWT_SECRET # "")
  /\ env.OPENAI_API_KEY = "" => proc.state \in {"starting", "fatal"}
  /\ proc.state = "listening"
       => proc.port = (IF env.PORT = "" THEN "8080" ELSE env.PORT)

\* C10: a relay call goes Received -> Validated -> Completed | Failed: a
\* terminal state has exactly one status code written, one of 200, 400, 405
\* and 500; the provider is called only for a POST whose body decoded to a
\* non-empty question, never on a path ending in 400 or 405; and after a
\* terminal state the call takes no further step.
C10_RelayInv ==
  LET d == Decode(req.body)
  IN  /\ pc \in {"idle", "received", "validated", "completed", "failed"}
      /\ pc \in Terminal
           => /\ Len(resp.codes) = 1
              /\ resp.codes[1] \in {200, 400, 405, 500}
              /\ pc = "completed" <=> resp.codes[1] = 200
      /\ pc \notin Terminal => resp.codes = <<>>
      /\ Len(sent) <= 1
      /\ pc = "validated" => Len(sent) = 1
      /\ sent # <<>>
           => /\ req.method = "POST" /\ ~d.err /\ d.Question # ""
              /\ \A i \in 1..Len(resp.codes) : resp.codes[i] \in {200, 500}

C10_RelayStep ==
  /\ pc = "received" => pc' \in {"validated", "failed"}
  /\ pc = "validated" => (pc' \in Terminal /\ sent' = sent)
  /\ pc \in Terminal => (pc' = "received" /\ resp' = NoResp /\ sent' = <<>>)

C10_RelayStateMachine == [](C10_RelayInv) /\ [][C10_RelayStep]_vars

C10_Witness ==
  /\ req.handler = "chatHandler"
  /\ pc = "completed"
  /\ Len(sent) = 1
  /\ Len(resp.codes) = 1
  /\ out.choices # <<>>
====
